---- MODULE Spec2Model ----
(***************************************************************************)
(* Synchronisation of the MongoDB image collection with the Qdrant vector  *)
(* collection: BatchProcessor.procesar_coleccion_completa (runBatch),      *)
(* BuscadorSemantico.procesar_documento, MigracionManager (reconcile,      *)
(* verify) and the QdrantManager point operations.                         *)
(***************************************************************************)
EXTENDS Integers, Sequences, FiniteSets, TLC

\* ------------------------------------------------------------------------
\* Bounds of the model
\* ------------------------------------------------------------------------
MaxDocs == 2
MaxBatch == 2
MaxLimite == 1
MaxCorridas == 2
MaxMigraciones == 1
MaxFallos == 1
MaxDetecciones == 1

\* ------------------------------------------------------------------------
\* Scaled-down widths of the md5 digest: the first 8 hex characters (32
\* bits) range over 0..HiSpace-1, the remaining 24 over 0..LoSpace-1.
\* ------------------------------------------------------------------------
HiSpace == 3
LoSpace == 4

VARIABLES
    mongo,          \* db_manager.collection: _id -> document
    puntos,         \* Qdrant collection: numeric point id -> point
    cancelar_flag,  \* MainWindow.cancelar_procesamiento_flag
    pc,             \* position of the batch job
    documentos,     \* documentos_sin_procesar (candidate list of the run)
    batch_size,     \* parameter of the run
    max_documentos, \* parameter of the run (0 = None = all documents)
    i,              \* start of the current chunk (0-based)
    j,              \* offset of the current document inside the chunk
    procesados,     \* documentos_procesados
    exitosos,       \* documentos_exitosos
    errores,        \* documentos_errores
    resultado,      \* dictionary returned by the last finished run
    traza,          \* observation log of the current (or last) run
    previo,         \* what the run before it counted and returned
    corridas,       \* runs, failures and detections used so far (bounds)
    migracion,      \* result of the last reconcile run with its pre-state
    ultimaOp,       \* last direct QdrantManager point operation
    verificacion,   \* result of the last verificar_migracion_completa call
    busqueda,       \* the hybrid search in progress (or the last one)
    puntuacion,     \* the last call of _calcular_similitud_regex
    almacen,        \* the store a backup is taken of and restored into
    archivo,        \* the backup file (ruta_backup)
    backup_info,    \* dictionary returned by crear_backup_coleccion
    validacion,     \* dictionary returned by the last validar_backup
    restauracion,   \* outcome of the last restaurar_coleccion
    coleccion_qdrant, \* the collection a starting QdrantManager finds
    arranque,       \* position and outcome of QdrantManager.__init__
    ventana,        \* MainWindow: buttons, cancel flag, procesamiento_thread
    hilos,          \* the WorkerThreads of the synchronisation jobs
    senales,        \* signals emitted by the workers, not yet delivered
    copia           \* a crear_backup_coleccion call in progress

paramVars == <<documentos, batch_size, max_documentos>>
contVars == <<procesados, exitosos, errores>>
jobVars == <<pc, documentos, batch_size, max_documentos, i, j,
             procesados, exitosos, errores, resultado, traza, previo>>
vars == <<mongo, puntos, cancelar_flag, pc, documentos, batch_size,
          max_documentos, i, j, procesados, exitosos, errores, resultado,
          traza, previo, corridas, migracion, ultimaOp, verificacion,
          busqueda, puntuacion, almacen, archivo, backup_info, validacion,
          restauracion, coleccion_qdrant, arranque, ventana, hilos, senales,
          copia>>

\* The variables the synchronisation jobs never touch.
respaldoVars == <<almacen, archivo, backup_info, validacion, restauracion>>
inicioVars == <<coleccion_qdrant, arranque>>
uiVars == <<ventana, hilos, senales>>
auxVars ==
    <<verificacion, busqueda, puntuacion, respaldoVars, inicioVars, uiVars,
      copia>>

\* The stores and the synchronisation jobs.
syncVars == <<mongo, puntos, cancelar_flag, jobVars, corridas, migracion,
              ultimaOp>>

\* What the operations of each auxiliary specification leave alone.
fueraDeMigracion ==
    <<busqueda, puntuacion, respaldoVars, inicioVars, uiVars, copia>>
fueraDeHibrida ==
    <<syncVars, verificacion, puntuacion, respaldoVars, inicioVars, uiVars,
      copia>>
fueraDeRegex ==
    <<syncVars, verificacion, busqueda, respaldoVars, inicioVars, uiVars,
      copia>>
fueraDeRespaldo ==
    <<syncVars, verificacion, busqueda, puntuacion, inicioVars, uiVars, copia>>
fueraDeCopia ==
    <<syncVars, verificacion, busqueda, puntuacion, inicioVars, uiVars>>
fueraDeInicio ==
    <<syncVars, verificacion, busqueda, puntuacion, respaldoVars, uiVars,
      copia>>
fueraDeUI ==
    <<syncVars, verificacion, busqueda, puntuacion, respaldoVars, inicioVars,
      copia>>

\* ------------------------------------------------------------------------
\* Identity
\* ------------------------------------------------------------------------
Ids == 1..MaxDocs

\* hash_sha512[:16], the id_hash the image search of the UI stores.
Prefix16(id) == 100 + id

\* ImagenDocumento.generar_id_hash: sha256 of the _id.
generar_id_hash(id) == 200 + id

\* ImagenDocumento.ensure_id_hash on a document read from MongoDB
\* (id_hash 0 stands for a missing or empty id_hash).
ensure_id_hash(id, id_hash) ==
    IF id_hash = 0 /\ id # 0 THEN generar_id_hash(id) ELSE id_hash

\* hashlib.md5(clave).hexdigest(), split as <<first 8 hex chars, rest>>.
md5(clave) == <<((clave \div 100) + clave) % HiSpace, clave % LoSpace>>

\* int(hash_md5[:8], 16)
IdNumerico32(clave) == md5(clave)[1]

\* int(hashlib.md5(...).hexdigest(), 16)
IdNumerico128(clave) == md5(clave)[1] * LoSpace + md5(clave)[2]

\* ------------------------------------------------------------------------
\* Documents of the primary store
\* ------------------------------------------------------------------------
\* A document is a record; "campos" is the set of optional fields that
\* exist in it.  An embedding is a sequence of numbers (<<>> is the empty
\* list []), a description a sequence too (<<>> is the empty string "").
CamposOpcionales == {"embedding", "descripcion_semantica", "qdrant"}

\* Document written by MetadataExtractor: _id = id_hash = file hash, no
\* embedding fields.
DocExtractor(id) ==
    [id_hash |-> id, embedding |-> <<>>, descripcion_semantica |-> <<>>,
     objeto_procesado |-> FALSE, qdrant |-> FALSE, campos |-> {}]

\* Document written by the image search of the UI: _id = sha512,
\* id_hash = its first 16 characters, embedding [] and description "".
DocBusqueda(id) ==
    [id_hash |-> Prefix16(id), embedding |-> <<>>,
     descripcion_semantica |-> <<>>, objeto_procesado |-> FALSE,
     qdrant |-> FALSE, campos |-> {"embedding", "descripcion_semantica"}]

\* Document without id_hash (the documents test_fix.py converts).
DocSinHash(id) ==
    [id_hash |-> 0, embedding |-> <<>>, descripcion_semantica |-> <<>>,
     objeto_procesado |-> FALSE, qdrant |-> FALSE, campos |-> {}]

DocsNuevos(id) == {DocExtractor(id), DocBusqueda(id), DocSinHash(id)}

\* ImagenDocumento(**doc_data) followed by ensure_id_hash(): the in-memory
\* object the jobs work with (None/absent fields become defaults).
ImagenDocumento(id) ==
    [id |-> id,
     id_hash |-> ensure_id_hash(id, mongo[id].id_hash),
     objeto_procesado |-> mongo[id].objeto_procesado]

\* collection.update_one({"_id": clave}, {"$set": campos}): a filter that
\* matches no document changes nothing and raises nothing.
UpdateEmbedding(coll, clave, embedding, descripcion) ==
    IF clave \in DOMAIN coll
    THEN [coll EXCEPT ![clave] =
            [@ EXCEPT !.embedding = embedding,
                      !.descripcion_semantica = descripcion,
                      !.campos = @ \cup {"embedding", "descripcion_semantica"}]]
    ELSE coll

\* DatabaseManager.actualizar_embedding
actualizar_embedding(coll, doc_id, embedding, descripcion) ==
    UpdateEmbedding(coll, doc_id, embedding, descripcion)

\* A flag write that matches no document (alternative to MarcarQdrant).
MarcarQdrantSinEfecto(coll, id) == coll

\* collection.update_one({"_id": documento.id}, {"$set": {"qdrant": True}})
MarcarQdrant(coll, id) ==
    IF id \in DOMAIN coll
    THEN [coll EXCEPT ![id] = [@ EXCEPT !.qdrant = TRUE,
                                        !.campos = @ \cup {"qdrant"}]]
    ELSE coll

\* BuscadorSemantico._crear_texto_desde_campos: the text is built from the
\* fields of the in-memory document, in a fixed order.
_crear_texto_desde_campos(documento) ==
    <<documento.id_hash, documento.id,
      IF documento.objeto_procesado THEN 1 ELSE 0>>

\* BuscadorSemantico.generar_embedding: an opaque function of the text
\* with a fixed, non-zero length.
generar_embedding(texto) == <<texto[1] * 2 + texto[3]>>

\* ------------------------------------------------------------------------
\* Points of the vector store
\* ------------------------------------------------------------------------
\* QdrantManager.insertar_vector: upsert of a point with the full payload
\* under int(md5(id_hash)[:8], 16).
insertar_vector(pts, documento, embedding, descripcion) ==
    LET id_numerico == IdNumerico32(documento.id_hash)
        point == [vector |-> embedding,
                  payload |-> [id |-> documento.id,
                               id_hash |-> documento.id_hash,
                               objeto_procesado |-> documento.objeto_procesado,
                               descripcion_semantica |-> descripcion,
                               completo |-> TRUE]]
    IN  (id_numerico :> point) @@ pts

\* QdrantManager.obtener_por_id: client.retrieve of the 32-bit id.
obtener_por_id(pts, doc_id) == IdNumerico32(doc_id) \in DOMAIN pts

\* QdrantManager.actualizar_vector: upsert of a point whose payload holds
\* only the description (the upsert replaces the whole point).
actualizar_vector(pts, doc_id, embedding, descripcion) ==
    LET id_numerico == IdNumerico32(doc_id)
        point == [vector |-> embedding,
                  payload |-> [id |-> 0, id_hash |-> 0,
                               objeto_procesado |-> FALSE,
                               descripcion_semantica |-> descripcion,
                               completo |-> FALSE]]
    IN  (id_numerico :> point) @@ pts

\* Numeric id QdrantManager.eliminar_vector computes from the key.
IdEliminar(doc_id) == IdNumerico128(doc_id)

\* QdrantManager.eliminar_vector: client.delete of the id it computes.
eliminar_vector(pts, doc_id) ==
    [n \in DOMAIN pts \ {IdEliminar(doc_id)} |-> pts[n]]

\* QdrantManager.obtener_estadisticas()["total_vectors"]
total_vectors == Cardinality(DOMAIN puntos)

\* DatabaseManager.obtener_estadisticas()["documentos_con_embedding"]:
\* count_documents({"embedding": {"$exists": True}})
documentos_con_embedding ==
    Cardinality({id \in DOMAIN mongo : "embedding" \in mongo[id].campos})

\* ------------------------------------------------------------------------
\* Candidate query of the batch job
\* ------------------------------------------------------------------------
\* The filter of _obtener_documentos_sin_embedding.
SinEmbedding(d) ==
    /\ \/ "embedding" \notin d.campos
       \/ "descripcion_semantica" \notin d.campos
       \/ d.objeto_procesado = FALSE
    /\ \/ "qdrant" \notin d.campos
       \/ d.qdrant = FALSE

\* The ids of a set in the order find() returns them (ascending _id).
RECURSIVE EnOrden(_)
EnOrden(S) ==
    IF S = {} THEN <<>>
    ELSE LET m == CHOOSE x \in S : \A y \in S : x <= y
         IN  <<m>> \o EnOrden(S \ {m})

Min(a, b) == IF a <= b THEN a ELSE b

\* A cursor that ignores the limit (alternative to Limitar).
LimitarSinTope(ids, limite) == ids

\* cursor.limit(limite) applied when "if limite:" holds (0 and None do not).
Limitar(ids, limite) ==
    IF limite # 0 THEN SubSeq(ids, 1, Min(limite, Len(ids))) ELSE ids

Rango(seq) == {seq[n] : n \in 1..Len(seq)}

\* collection.find(query) with the optional limit: the _ids it returns.
ConsultaSinEmbedding(limite) ==
    Limitar(EnOrden({id \in DOMAIN mongo : SinEmbedding(mongo[id])}), limite)

\* The elements of a sequence that are not in a set, in order.
RECURSIVE Quitar(_, _)
Quitar(seq, S) ==
    IF seq = <<>> THEN <<>>
    ELSE IF Head(seq) \in S THEN Quitar(Tail(seq), S)
    ELSE <<Head(seq)>> \o Quitar(Tail(seq), S)

\* BatchProcessor._obtener_documentos_sin_embedding; malos are the
\* documents whose conversion to ImagenDocumento raises: they are logged
\* and left out of the list.
_obtener_documentos_sin_embedding(limite, malos) ==
    LET ids == Quitar(ConsultaSinEmbedding(limite), malos)
    IN  [n \in 1..Len(ids) |-> ImagenDocumento(ids[n])]

\* ------------------------------------------------------------------------
\* The batch job: procesar_coleccion_completa / procesar_documento
\* ------------------------------------------------------------------------
SinResultado ==
    [tipo |-> "ninguno", total_procesados |-> 0, total_exitosos |-> 0,
     total_errores |-> 0, cancelado |-> FALSE]

Resultado(tipo, cancelado) ==
    [tipo |-> tipo, total_procesados |-> procesados,
     total_exitosos |-> exitosos, total_errores |-> errores,
     cancelado |-> cancelado]

\* Observations of one run: its candidate ids and cap, the documents that
\* were not flagged when it started, the documents handed to
\* procesar_documento in order, those counted as successful or failed, the
\* kinds of failure that occurred, when the cancel flag was set, the pauses
\* taken, the vector count at the start and the writes made per document.
TrazaInicial ==
    [candidatos |-> <<>>, lim |-> 0, pendientes0 |-> {},
     intentados |-> <<>>, contados |-> {}, fallidos |-> {}, fallos |-> {},
     cancel_en |-> -1, cancel_medio |-> FALSE, pausas |-> 0,
     puntos0 |-> 0, efectos |-> [id \in Ids |-> {}]]

SinPrevio == [contados |-> {}]

SinMigracion ==
    [tipo |-> "ninguna", total_migrados |-> 0, total_omitidos |-> 0,
     total_errores |-> 0, total_procesados |-> 0, P0 |-> 0, V0 |-> 0,
     puntos0 |-> <<>>]


\* The candidate list taken from its end (alternative to documento).
documento_desde_el_final == documentos[Len(documentos) - (i + j)]

\* The document being processed and the chunk it belongs to.
documento == documentos[i + j + 1]
batch == SubSeq(documentos, i + 1, Min(i + batch_size, Len(documentos)))
texto_para_embedding == _crear_texto_desde_campos(documento)

\* An external call may fail while the failure budget of the model lasts.
PuedeFallar == corridas.fallos < MaxFallos
Gastar(ok) == IF ok THEN corridas ELSE [corridas EXCEPT !.fallos = @ + 1]

\* The locals and parameters of the run are gone once it has returned.
Retorno ==
    /\ pc' = "idle"
    /\ documentos' = <<>> /\ batch_size' = 1 /\ max_documentos' = 0
    /\ i' = 0 /\ j' = 0
    /\ procesados' = 0 /\ exitosos' = 0 /\ errores' = 0

Corriendo == pc # "idle"
EnDocumento == pc \in {"embed", "mongo", "qdrant", "marcar"}

\* Start of procesar_coleccion_completa: the candidate query (which may
\* raise, or drop the documents in malos) and the early return on an empty
\* list.  The UI resets the flag before it starts
\* the worker.
Iniciar(bs, lim, find_ok, malos) ==
    /\ pc = "idle"
    /\ corridas.lotes < MaxCorridas
    /\ find_ok \/ PuedeFallar
    /\ malos \subseteq Rango(ConsultaSinEmbedding(lim))
    /\ malos # {} => (find_ok /\ PuedeFallar /\ Cardinality(malos) = 1)
    /\ corridas' = [Gastar(find_ok /\ malos = {}) EXCEPT !.lotes = @ + 1]
    /\ cancelar_flag' = FALSE
    /\ i' = 0 /\ j' = 0
    /\ procesados' = 0 /\ exitosos' = 0 /\ errores' = 0
    /\ previo' = [contados |-> traza.contados]
    /\ migracion' = SinMigracion
    /\ LET docs == _obtener_documentos_sin_embedding(lim, malos)
           t0 == [TrazaInicial EXCEPT
                    !.puntos0 = total_vectors,
                    !.fallos = IF malos = {} THEN {} ELSE {"conversion"},
                    !.lim = lim,
                    !.pendientes0 = {id \in DOMAIN mongo : ~mongo[id].qdrant},
                    !.candidatos = IF find_ok
                                   THEN [n \in 1..Len(docs) |-> docs[n].id]
                                   ELSE <<>>]
       IN  IF ~find_ok
           THEN /\ pc' = "idle"
                /\ documentos' = <<>> /\ batch_size' = 1 /\ max_documentos' = 0
                /\ resultado' = [SinResultado EXCEPT !.tipo = "error"]
                /\ traza' = [t0 EXCEPT !.fallos = {"find"}]
           ELSE IF Len(docs) = 0
           THEN /\ pc' = "idle"
                /\ documentos' = <<>> /\ batch_size' = 1 /\ max_documentos' = 0
                /\ resultado' = [SinResultado EXCEPT !.tipo = "vacio"]
                /\ traza' = t0
           ELSE /\ pc' = "lote"
                /\ documentos' = docs /\ batch_size' = bs /\ max_documentos' = lim
                /\ resultado' = SinResultado
                /\ traza' = t0
    /\ UNCHANGED <<mongo, puntos, ultimaOp, auxVars>>

\* Top of the chunk loop: end of the loop, cancellation check, next chunk.
Lote ==
    /\ pc = "lote"
    /\ IF i >= Len(documentos)
       THEN /\ Retorno
            /\ resultado' = Resultado("completado", FALSE)
       ELSE IF cancelar_flag
       THEN /\ Retorno
            /\ resultado' = Resultado("cancelado", TRUE)
       ELSE /\ pc' = "doc"
            /\ j' = 0
            /\ resultado' = resultado
            /\ UNCHANGED <<paramVars, i, contVars>>
    /\ UNCHANGED <<mongo, puntos, cancelar_flag, traza, previo, corridas,
                   migracion, ultimaOp, auxVars>>

\* Top of the document loop: end of the chunk (counter, pause), the
\* cancellation check before each document, call of procesar_documento.
Doc ==
    /\ pc = "doc"
    /\ IF j >= Len(batch)
       THEN /\ procesados' = procesados + Len(batch)
            /\ traza' = [traza EXCEPT !.pausas =
                            IF i + batch_size < Len(documentos) THEN @ + 1 ELSE @]
            /\ i' = i + batch_size
            /\ pc' = "lote"
            /\ resultado' = resultado
            /\ UNCHANGED <<paramVars, j, exitosos, errores>>
       ELSE IF cancelar_flag
       THEN /\ Retorno
            /\ resultado' = Resultado("cancelado", TRUE)
            /\ UNCHANGED traza
       ELSE /\ pc' = "embed"
            /\ traza' = [traza EXCEPT !.intentados = Append(@, documento.id)]
            /\ resultado' = resultado
            /\ UNCHANGED <<paramVars, i, j, contVars>>
    /\ UNCHANGED <<mongo, puntos, cancelar_flag, previo, corridas, migracion,
                   ultimaOp, auxVars>>

\* An except branch that gives up the rest of the chunk (alternative to
\* ErrorDocumento).
ErrorDocumentoAbortaLote(causa) ==
    /\ errores' = errores + 1
    /\ j' = Len(batch)
    /\ pc' = "doc"
    /\ traza' = [traza EXCEPT !.fallidos = @ \cup {documento.id},
                              !.fallos = @ \cup {causa}]

\* The except branch of the document loop: the error is counted and the
\* loop goes on with the next document.
ErrorDocumento(causa) ==
    /\ errores' = errores + 1
    /\ j' = j + 1
    /\ pc' = "doc"
    /\ traza' = [traza EXCEPT !.fallidos = @ \cup {documento.id},
                              !.fallos = @ \cup {causa}]

\* procesar_documento: cancellation check, then generar_embedding.
Embed(ok) ==
    /\ pc = "embed"
    /\ ok \/ (~cancelar_flag /\ PuedeFallar)
    /\ corridas' = Gastar(ok)
    /\ IF cancelar_flag THEN ErrorDocumento("cancelado")
       ELSE IF ~ok THEN ErrorDocumento("embedding")
       ELSE /\ pc' = "mongo"
            /\ UNCHANGED <<errores, j, traza>>
    /\ UNCHANGED <<mongo, puntos, cancelar_flag, paramVars, i, procesados,
                   exitosos, resultado, previo, migracion, ultimaOp, auxVars>>

\* procesar_documento: cancellation check, then actualizar_embedding with
\* documento.id_hash as the _id of the filter.
Mongo(ok) ==
    /\ pc = "mongo"
    /\ ok \/ (~cancelar_flag /\ PuedeFallar)
    /\ corridas' = Gastar(ok)
    /\ IF cancelar_flag THEN ErrorDocumento("cancelado") /\ mongo' = mongo
       ELSE IF ~ok THEN ErrorDocumento("mongo") /\ mongo' = mongo
       ELSE /\ mongo' = actualizar_embedding(mongo, documento.id_hash,
                            generar_embedding(texto_para_embedding),
                            texto_para_embedding)
            /\ pc' = "qdrant"
            /\ traza' = [traza EXCEPT !.efectos[documento.id] =
                            IF documento.id_hash \in DOMAIN mongo
                            THEN @ \cup {"embedding"} ELSE @]
            /\ UNCHANGED <<errores, j>>
    /\ UNCHANGED <<puntos, cancelar_flag, paramVars, i, procesados, exitosos,
                   resultado, previo, migracion, ultimaOp, auxVars>>

\* The Qdrant block of procesar_documento; an exception inside it is
\* logged as a warning and swallowed.
GuardarEnQdrant(pts, doc, ok) ==
    IF ~ok THEN pts
    ELSE IF obtener_por_id(pts, doc.id_hash)
    THEN actualizar_vector(pts, doc.id_hash,
                           generar_embedding(_crear_texto_desde_campos(doc)),
                           _crear_texto_desde_campos(doc))
    ELSE insertar_vector(pts, doc,
                         generar_embedding(_crear_texto_desde_campos(doc)),
                         _crear_texto_desde_campos(doc))

\* procesar_documento: cancellation check, then the Qdrant block and the
\* return; the caller counts the document as successful.
Qdrant(ok) ==
    /\ pc = "qdrant"
    /\ ok \/ (~cancelar_flag /\ PuedeFallar)
    /\ corridas' = Gastar(ok)
    /\ IF cancelar_flag
       THEN ErrorDocumento("cancelado") /\ UNCHANGED <<puntos, exitosos>>
       ELSE /\ puntos' = GuardarEnQdrant(puntos, documento, ok)
            /\ exitosos' = exitosos + 1
            /\ pc' = "marcar"
            /\ traza' = [traza EXCEPT
                            !.contados = @ \cup {documento.id},
                            !.fallos = IF ok THEN @ ELSE @ \cup {"qdrant"},
                            !.efectos[documento.id] =
                                IF ok THEN @ \cup {"vector"} ELSE @]
            /\ UNCHANGED <<errores, j>>
    /\ UNCHANGED <<mongo, cancelar_flag, paramVars, i, procesados, resultado,
                   previo, migracion, ultimaOp, auxVars>>

\* "Marcar como insertado en Qdrant": update_one by documento.id; its
\* exception is logged as a warning and swallowed.
Marcar(ok) ==
    /\ pc = "marcar"
    /\ ok \/ PuedeFallar
    /\ corridas' = Gastar(ok)
    /\ mongo' = IF ok THEN MarcarQdrant(mongo, documento.id) ELSE mongo
    /\ traza' = [traza EXCEPT
                    !.fallos = IF ok THEN @ ELSE @ \cup {"marca"},
                    !.efectos[documento.id] = IF ok THEN @ \cup {"marca"} ELSE @]
    /\ j' = j + 1
    /\ pc' = "doc"
    /\ UNCHANGED <<puntos, cancelar_flag, paramVars, i, contVars, resultado,
                   previo, migracion, ultimaOp, auxVars>>

\* MainWindow._cancelar_procesamiento while the worker runs.
Cancelar ==
    /\ Corriendo
    /\ ~cancelar_flag
    /\ cancelar_flag' = TRUE
    /\ traza' = [traza EXCEPT
                    !.cancel_en = exitosos - (IF pc = "marcar" THEN 1 ELSE 0),
                    !.cancel_medio = EnDocumento]
    /\ UNCHANGED <<mongo, puntos, pc, paramVars, i, j, contVars, resultado,
                   previo, corridas, migracion, ultimaOp, auxVars>>

\* The process dies in the middle of a run: no result is returned.
Interrumpir ==
    /\ Corriendo
    /\ Retorno
    /\ resultado' = [SinResultado EXCEPT !.tipo = "interrumpido"]
    /\ UNCHANGED <<mongo, puntos, cancelar_flag, traza, previo, corridas,
                   migracion, ultimaOp, auxVars>>

\* BackgroundObjectProcessor.procesar_imagenes_sin_objetos on one document.
DetectarObjetos(id) ==
    /\ pc = "idle"
    /\ id \in DOMAIN mongo
    /\ mongo[id].objeto_procesado = FALSE
    /\ corridas.detecciones < MaxDetecciones
    /\ corridas' = [corridas EXCEPT !.detecciones = @ + 1]
    /\ mongo' = [mongo EXCEPT ![id].objeto_procesado = TRUE]
    /\ UNCHANGED <<puntos, cancelar_flag, jobVars, migracion, ultimaOp, auxVars>>

\* ------------------------------------------------------------------------
\* Reconcile and verify: MigracionManager
\* ------------------------------------------------------------------------
\* find({"embedding": {"$exists": True, "$ne": None}}) of the reconciler.
ConEmbedding(d) == "embedding" \in d.campos

\* A completeness test that lets every candidate through (alternative to
\* Incompleto).
IncompletoNunca(d) == FALSE

\* "not doc.get('embedding') or not doc.get('descripcion_semantica')"
Incompleto(d) ==
    \/ "embedding" \notin d.campos \/ d.embedding = <<>>
    \/ "descripcion_semantica" \notin d.campos \/ d.descripcion_semantica = <<>>

\* The document loop of migrar_embeddings_existentes over the candidate
\* ids in order; F is the set of documents whose store call raises.
\* The accumulator holds the points and the three counters.
RECURSIVE MigrarLista(_, _, _)
MigrarLista(ids, F, acc) ==
    IF ids = <<>> THEN acc
    ELSE LET id == Head(ids)
             d == mongo[id]
             sig == IF id \in F
                    THEN [acc EXCEPT !.errores = @ + 1]
                    ELSE IF Incompleto(d)
                    THEN [acc EXCEPT !.omitidos = @ + 1]
                    ELSE [acc EXCEPT
                            !.pts = insertar_vector(@, ImagenDocumento(id),
                                        d.embedding, d.descripcion_semantica),
                            !.migrados = @ + 1]
         IN  MigrarLista(Tail(ids), F, sig)

\* MigracionManager.migrar_embeddings_existentes
migrar_embeddings_existentes(F) ==
    MigrarLista(EnOrden({id \in DOMAIN mongo : ConEmbedding(mongo[id])}), F,
                [pts |-> puntos, migrados |-> 0, omitidos |-> 0, errores |-> 0])

\* A verification that asks for equal counts (alternative to
\* verificar_migracion_completa).
verificar_con_igualdad ==
    [documentos_mongodb |-> documentos_con_embedding,
     documentos_qdrant |-> total_vectors,
     migracion_completa |-> total_vectors = documentos_con_embedding,
     diferencia |-> documentos_con_embedding - total_vectors]

\* MigracionManager.verificar_migracion_completa
verificar_migracion_completa ==
    [documentos_mongodb |-> documentos_con_embedding,
     documentos_qdrant |-> total_vectors,
     migracion_completa |-> total_vectors >= documentos_con_embedding,
     diferencia |-> documentos_con_embedding - total_vectors]

\* One reconcile run (the batch job is not running).
Migrar(F) ==
    /\ pc = "idle"
    /\ corridas.migraciones < MaxMigraciones
    /\ F \subseteq {id \in DOMAIN mongo : ConEmbedding(mongo[id])}
    /\ corridas.fallos + Cardinality(F) <= MaxFallos
    /\ corridas' = [corridas EXCEPT !.migraciones = @ + 1,
                                    !.fallos = @ + Cardinality(F)]
    /\ LET r == migrar_embeddings_existentes(F)
       IN  /\ puntos' = r.pts
           /\ migracion' =
                [tipo |-> IF documentos_con_embedding = 0 THEN "vacia" ELSE "completada",
                 total_migrados |-> r.migrados,
                 total_omitidos |-> r.omitidos,
                 total_errores |-> r.errores,
                 total_procesados |-> documentos_con_embedding,
                 P0 |-> documentos_con_embedding,
                 V0 |-> total_vectors,
                 puntos0 |-> puntos]
    /\ UNCHANGED <<mongo, cancelar_flag, jobVars, ultimaOp, auxVars>>

\* ------------------------------------------------------------------------
\* Initial states and specification of the synchronisation jobs
\* ------------------------------------------------------------------------
SinOp == [op |-> "ninguna", clave |-> 0, id_numerico |-> 0, antes |-> <<>>]

SinVerificacion ==
    [tipo |-> "ninguna", documentos_mongodb |-> 0, documentos_qdrant |-> 0,
     migracion_completa |-> FALSE, diferencia |-> 0, mongo0 |-> <<>>,
     puntos0 |-> {}]

\* No backup file written, nothing validated or restored yet.
SinArchivo ==
    [existe |-> FALSE, json |-> FALSE, secciones |-> {},
     metadata |-> [campos |-> {}, total |-> 0, version |-> ""],
     registros |-> <<>>]
SinBackupInfo == [hecho |-> FALSE, hash_sha256 |-> SinArchivo, origen |-> <<>>]
SinValidacion ==
    [hecha |-> FALSE, valido |-> FALSE, error |-> "", hash_sha256 |-> SinArchivo,
     archivo |-> SinArchivo]
SinRestauracion ==
    [estado |-> "ninguna", recrear |-> FALSE, archivo |-> SinArchivo,
     antes |-> <<>>, total_restaurados |-> 0, total_en_coleccion |-> 0]

\* No store under backup.
SinRespaldo ==
    /\ almacen = [clase |-> "ninguna", registros |-> <<>>]
    /\ archivo = SinArchivo
    /\ backup_info = SinBackupInfo
    /\ validacion = SinValidacion
    /\ restauracion = SinRestauracion

\* No backup in progress.
SinCopia == [pc |-> "ninguna", total_documentos |-> 0, leidos |-> <<>>]

\* No QdrantManager under construction.
SinColeccion == [existe |-> FALSE, size |-> 0, puntos |-> {}]
SinArranque == [pc |-> "ninguno", coleccion0 |-> SinColeccion]
SinInicio ==
    /\ coleccion_qdrant = SinColeccion
    /\ arranque = SinArranque

\* Largest number of synchronisation jobs started from the window.
MaxTrabajos == 3
Trabajos == 1..MaxTrabajos

\* The window after _crear_pestana_procesamiento: "Procesar" enabled,
\* "Cancelar" disabled, no procesamiento_thread attribute (0).
VentanaInicial ==
    [procesar_btn |-> TRUE, cancelar_btn |-> FALSE,
     cancelar_procesamiento_flag |-> FALSE, procesamiento_thread |-> 0,
     progreso_label |-> "Listo para procesar"]
SinHilo == [pc |-> "ninguno", restantes |-> 0, reportes |-> 0]
SinUI ==
    /\ ventana = VentanaInicial
    /\ hilos = [h \in Trabajos |-> SinHilo]
    /\ senales = <<>>

\* The fields _calcular_similitud_regex weighs, in dictionary order.
Campos ==
    <<"nombre", "descripcion_semantica", "objetos", "personas", "ciudad",
      "barrio", "calle", "pais">>

\* No document scored yet.
SinPuntuacion ==
    [estado |-> "ninguna", casos |-> [n \in DOMAIN Campos |-> "vacio"],
     falla |-> FALSE, similitud |-> 0]

\* No search asked yet.
SinBusqueda ==
    [estado |-> "ninguna", limite |-> 0, en_mongo |-> <<>>,
     en_qdrant |-> <<>>, resultados_texto |-> <<>>,
     resultados_semanticos |-> <<>>, resultados |-> <<>>, fallo_en |-> ""]

\* A collection of freshly discovered documents.
InitMongo ==
    \E n \in 0..MaxDocs :
        mongo \in {f \in [1..n -> UNION {DocsNuevos(id) : id \in Ids}] :
                      \A id \in 1..n : f[id] \in DocsNuevos(id)}

\* An empty vector store, no job running, nothing returned yet.
InitTrabajo ==
    /\ puntos = <<>>
    /\ cancelar_flag = FALSE
    /\ pc = "idle"
    /\ documentos = <<>>
    /\ batch_size = 1
    /\ max_documentos = 0
    /\ i = 0 /\ j = 0
    /\ procesados = 0 /\ exitosos = 0 /\ errores = 0
    /\ resultado = SinResultado
    /\ traza = TrazaInicial
    /\ previo = SinPrevio
    /\ corridas = [lotes |-> 0, migraciones |-> 0, fallos |-> 0,
                   detecciones |-> 0]
    /\ migracion = SinMigracion
    /\ ultimaOp = SinOp

Init ==
    /\ InitMongo
    /\ InitTrabajo
    /\ verificacion = SinVerificacion
    /\ busqueda = SinBusqueda
    /\ puntuacion = SinPuntuacion
    /\ SinRespaldo
    /\ SinInicio
    /\ SinUI
    /\ copia = SinCopia

Next ==
    \/ \E bs \in 1..MaxBatch, lim \in 0..MaxLimite, find_ok \in BOOLEAN,
          malos \in SUBSET Ids :
         Iniciar(bs, lim, find_ok, malos)
    \/ Lote
    \/ Doc
    \/ \E ok \in BOOLEAN : Embed(ok)
    \/ \E ok \in BOOLEAN : Mongo(ok)
    \/ \E ok \in BOOLEAN : Qdrant(ok)
    \/ \E ok \in BOOLEAN : Marcar(ok)
    \/ Cancelar
    \/ Interrumpir
    \/ \E id \in Ids : DetectarObjetos(id)
    \/ \E F \in SUBSET Ids : Migrar(F)

Spec == Init /\ [][Next]_vars

TypeOK ==
    /\ pc \in {"idle", "lote", "doc", "embed", "mongo", "qdrant", "marcar"}
    /\ cancelar_flag \in BOOLEAN
    /\ DOMAIN puntos \subseteq 0..(HiSpace - 1)

\* ------------------------------------------------------------------------
\* Direct use of the QdrantManager point operations, keyed by id_hash
\* ------------------------------------------------------------------------
\* The stable keys of the documents of the collection.
Claves == {ImagenDocumento(id).id_hash : id \in DOMAIN mongo}

OpInsertar(id) ==
    /\ id \in DOMAIN mongo
    /\ LET doc == ImagenDocumento(id)
           texto == _crear_texto_desde_campos(doc)
       IN  /\ puntos' = insertar_vector(puntos, doc, generar_embedding(texto), texto)
           /\ ultimaOp' = [op |-> "insertar", clave |-> doc.id_hash,
                           id_numerico |-> IdNumerico32(doc.id_hash),
                           antes |-> puntos]
    /\ UNCHANGED <<mongo, cancelar_flag, jobVars, corridas, migracion,
                 auxVars>>

OpObtener(clave) ==
    /\ clave \in Claves
    /\ ultimaOp' = [op |-> "obtener", clave |-> clave,
                    id_numerico |-> IdNumerico32(clave), antes |-> puntos]
    /\ UNCHANGED <<mongo, puntos, cancelar_flag, jobVars, corridas, migracion,
                 auxVars>>

OpActualizar(clave) ==
    /\ clave \in Claves
    /\ puntos' = actualizar_vector(puntos, clave, <<clave>>, <<clave>>)
    /\ ultimaOp' = [op |-> "actualizar", clave |-> clave,
                    id_numerico |-> IdNumerico32(clave), antes |-> puntos]
    /\ UNCHANGED <<mongo, cancelar_flag, jobVars, corridas, migracion,
                 auxVars>>

OpEliminar(clave) ==
    /\ clave \in Claves
    /\ puntos' = eliminar_vector(puntos, clave)
    /\ ultimaOp' = [op |-> "eliminar", clave |-> clave,
                    id_numerico |-> IdEliminar(clave), antes |-> puntos]
    /\ UNCHANGED <<mongo, cancelar_flag, jobVars, corridas, migracion,
                 auxVars>>

NextPuntos ==
    \/ \E id \in Ids : OpInsertar(id)
    \/ \E clave \in Claves : OpObtener(clave)
    \/ \E clave \in Claves : OpActualizar(clave)
    \/ \E clave \in Claves : OpEliminar(clave)

SpecPuntos == Init /\ [][NextPuntos]_vars

\* ------------------------------------------------------------------------
\* Reconcile and verify on a collection processed document by document
\* ------------------------------------------------------------------------
\* One iteration of MainWindow._procesar_documentos_pendientes: a document
\* with objeto_procesado False or without embedding field is loaded and
\* handed to procesar_documento(documento, None); no flag is written.
ProcesarPendiente(id, ok) ==
    /\ pc = "idle"
    /\ id \in DOMAIN mongo
    /\ mongo[id].objeto_procesado = FALSE \/ "embedding" \notin mongo[id].campos
    /\ ok \/ PuedeFallar
    /\ corridas' = Gastar(ok)
    /\ LET doc == ImagenDocumento(id)
           texto == _crear_texto_desde_campos(doc)
       IN  /\ mongo' = actualizar_embedding(mongo, doc.id_hash,
                                            generar_embedding(texto), texto)
           /\ puntos' = GuardarEnQdrant(puntos, doc, ok)
    /\ UNCHANGED <<cancelar_flag, jobVars, migracion, ultimaOp, auxVars>>

\* MigracionManager.limpiar_qdrant: the collection is deleted and created
\* again, empty.
LimpiarQdrant ==
    /\ pc = "idle"
    /\ puntos # <<>>
    /\ puntos' = <<>>
    /\ UNCHANGED <<mongo, cancelar_flag, jobVars, corridas, migracion,
                   ultimaOp, auxVars>>

\* One call of verificar_migracion_completa; the stores it read are kept
\* with its result.
Verificar ==
    /\ pc = "idle"
    /\ LET r == verificar_migracion_completa
       IN  verificacion' =
               [tipo |-> "hecha",
                documentos_mongodb |-> r.documentos_mongodb,
                documentos_qdrant |-> r.documentos_qdrant,
                migracion_completa |-> r.migracion_completa,
                diferencia |-> r.diferencia,
                mongo0 |-> mongo,
                puntos0 |-> DOMAIN puntos]
    /\ UNCHANGED <<syncVars, fueraDeMigracion>>

NextMigracion ==
    \/ \E id \in Ids, ok \in BOOLEAN : ProcesarPendiente(id, ok)
    \/ \E id \in Ids : DetectarObjetos(id)
    \/ \E F \in SUBSET Ids : Migrar(F)
    \/ LimpiarQdrant
    \/ Verificar

SpecMigracion == Init /\ [][NextMigracion]_vars

\* ------------------------------------------------------------------------
\* Hybrid search: BuscadorSemantico.buscar_hibrida
\* ------------------------------------------------------------------------
\* ConsultaBusqueda.limite ranges over 1..MaxLimiteBusqueda (the spin box of
\* the window allows 1..100).
MaxLimiteBusqueda == 2

\* Stable keys (id_hash) and scores (in tenths) of the results of a search.
ClavesBusqueda == {"a", "b", "c"}
Similitudes == {2, 5, 9}

\* ResultadoBusqueda, reduced to the stable key of its document, its score
\* and the path that produced it.
ResultadosDe(tipo) ==
    [id_hash : ClavesBusqueda, similitud : Similitudes, tipo_busqueda : {tipo}]

ClavesDeLista(lista) == {lista[n].id_hash : n \in DOMAIN lista}

\* What one path can return for a query: at most limite results (both
\* paths pass consulta.limite to their store), one per document or point.
ListasDe(tipo, limite) ==
    {lista \in UNION {[1..k -> ResultadosDe(tipo)] : k \in 0..limite} :
        \A m, n \in DOMAIN lista : lista[m].id_hash = lista[n].id_hash => m = n}

\* The entry of a key is never replaced (alternative to EsMayorSimilitud).
EsMayorSimilitudNunca(nuevo, actual) == FALSE

\* resultado.similitud > resultados_combinados[doc_id].similitud
EsMayorSimilitud(nuevo, actual) == nuevo.similitud > actual.similitud

\* The loop over resultados_texto + resultados_semanticos filling the
\* dictionary resultados_combinados; the dictionary is kept as the sequence
\* of its values in insertion order.
RECURSIVE Fusionar(_, _)
Fusionar(combinados, lista) ==
    IF lista = <<>> THEN combinados
    ELSE LET r == Head(lista)
             pos == {n \in DOMAIN combinados : combinados[n].id_hash = r.id_hash}
         IN  IF pos = {}
             THEN Fusionar(Append(combinados, r), Tail(lista))
             ELSE LET n == CHOOSE n \in pos : TRUE
                  IN  IF EsMayorSimilitud(r, combinados[n])
                      THEN Fusionar([combinados EXCEPT ![n] = r], Tail(lista))
                      ELSE Fusionar(combinados, Tail(lista))

\* One element put into a list sorted by descending score, after the
\* elements with the same score (list.sort is stable).
RECURSIVE InsertarOrdenado(_, _)
InsertarOrdenado(ordenados, r) ==
    IF ordenados = <<>> THEN <<r>>
    ELSE IF Head(ordenados).similitud >= r.similitud
         THEN <<Head(ordenados)>> \o InsertarOrdenado(Tail(ordenados), r)
         ELSE <<r>> \o ordenados

RECURSIVE OrdenarDesde(_, _)
OrdenarDesde(ordenados, lista) ==
    IF lista = <<>> THEN ordenados
    ELSE OrdenarDesde(InsertarOrdenado(ordenados, Head(lista)), Tail(lista))

\* The list is left in dictionary order (alternative to
\* OrdenarPorSimilitud).
SinOrdenar(lista) == lista

\* resultados_finales.sort(key=lambda x: x.similitud, reverse=True)
OrdenarPorSimilitud(lista) == OrdenarDesde(<<>>, lista)

\* resultados_finales[:consulta.limite]
Truncar(lista, limite) == SubSeq(lista, 1, Min(limite, Len(lista)))

\* The body of buscar_hibrida after the two searches.
Combinar(resultados_texto, resultados_semanticos, limite) ==
    Truncar(OrdenarPorSimilitud(
                Fusionar(<<>>, resultados_texto \o resultados_semanticos)),
            limite)

\* db_manager.buscar_por_texto(consulta); when it raises (the text index
\* search and the regex fallback both fail) buscar_hibrida logs and raises.
BuscarPorTexto(ok) ==
    /\ busqueda.estado = "pendiente"
    /\ busqueda' =
           IF ok
           THEN [busqueda EXCEPT !.estado = "texto",
                                 !.resultados_texto = busqueda.en_mongo]
           ELSE [busqueda EXCEPT !.estado = "error", !.fallo_en = "texto"]
    /\ UNCHANGED fueraDeHibrida

\* self.buscar_semanticamente(consulta): generar_embedding or
\* buscar_similares raising is logged and raised again, and buscar_hibrida
\* logs it and raises it again.
BuscarSemanticamente(ok) ==
    /\ busqueda.estado = "texto"
    /\ busqueda' =
           IF ok
           THEN [busqueda EXCEPT !.estado = "semantica",
                                 !.resultados_semanticos = busqueda.en_qdrant]
           ELSE [busqueda EXCEPT !.estado = "error", !.fallo_en = "semantica"]
    /\ UNCHANGED fueraDeHibrida

\* Fusion, sort and truncation; the list is returned.
CombinarResultados ==
    /\ busqueda.estado = "semantica"
    /\ busqueda' =
           [busqueda EXCEPT
               !.estado = "hecha",
               !.resultados = Combinar(busqueda.resultados_texto,
                                       busqueda.resultados_semanticos,
                                       busqueda.limite)]
    /\ UNCHANGED fueraDeHibrida

\* A query whose two paths have any results to give.
InitHibrida ==
    /\ mongo = <<>>
    /\ InitTrabajo
    /\ verificacion = SinVerificacion
    /\ puntuacion = SinPuntuacion
    /\ SinRespaldo
    /\ SinInicio
    /\ SinUI
    /\ copia = SinCopia
    /\ \E limite \in 1..MaxLimiteBusqueda :
       \E texto \in ListasDe("texto", limite) :
       \E semantica \in ListasDe("semantica", limite) :
           busqueda = [SinBusqueda EXCEPT !.estado = "pendiente",
                                          !.limite = limite,
                                          !.en_mongo = texto,
                                          !.en_qdrant = semantica]

NextHibrida ==
    \/ \E ok \in BOOLEAN : BuscarPorTexto(ok)
    \/ \E ok \in BOOLEAN : BuscarSemanticamente(ok)
    \/ CombinarResultados

SpecHibrida == InitHibrida /\ [][NextHibrida]_vars

\* ------------------------------------------------------------------------
\* Score of the regex fallback: DatabaseManager._calcular_similitud_regex
\* ------------------------------------------------------------------------
\* Scores are counted in hundredths.
SimilitudMaxima == 100
SimilitudMinima == 10

\* campos_ponderados, in tenths.
campos_ponderados ==
    [nombre |-> 10, descripcion_semantica |-> 9, objetos |-> 8,
     personas |-> 8, ciudad |-> 7, barrio |-> 6, calle |-> 6, pais |-> 5]

\* What the tests on one field of the document can give: the field is
\* missing or empty, the lowered query is a substring of the lowered value
\* (the two being equal included), the value is a substring of the query
\* and not the reverse, or neither.
Casos == {"vacio", "query_en_valor", "valor_en_query", "ninguno"}

\* The contribution of one field: 80% of its weight, 100% of it, or nothing.
Aporte(campo, caso) ==
    CASE caso = "query_en_valor" -> campos_ponderados[campo] * 8
      [] caso = "valor_en_query" -> campos_ponderados[campo] * 10
      [] OTHER -> 0

\* The loop over campos_ponderados.items().
RECURSIVE SumarAportes(_, _)
SumarAportes(casos, n) ==
    IF n = 0 THEN 0
    ELSE SumarAportes(casos, n - 1) + Aporte(Campos[n], casos[n])

\* A zero sum is returned as it is (alternative to ConMinimo).
SinMinimo(similitud) == similitud

\* if similitud == 0.0: similitud = 0.1
ConMinimo(similitud) ==
    IF similitud = 0 THEN SimilitudMinima ELSE similitud

\* The value returned for a document whose fields give the cases casos;
\* falla tells that an exception is raised inside the try block.
_calcular_similitud_regex(casos, falla) ==
    IF falla THEN SimilitudMinima
    ELSE ConMinimo(Min(SumarAportes(casos, Len(Campos)), SimilitudMaxima))

\* One call for a document returned by the regex query.
CalcularSimilitudRegex ==
    /\ puntuacion.estado = "pendiente"
    /\ puntuacion' =
           [puntuacion EXCEPT
               !.estado = "hecha",
               !.similitud = _calcular_similitud_regex(puntuacion.casos,
                                                       puntuacion.falla)]
    /\ UNCHANGED fueraDeRegex

\* Any document and any query.
InitRegex ==
    /\ mongo = <<>>
    /\ InitTrabajo
    /\ verificacion = SinVerificacion
    /\ busqueda = SinBusqueda
    /\ SinRespaldo
    /\ SinInicio
    /\ SinUI
    /\ copia = SinCopia
    /\ \E casos \in [DOMAIN Campos -> Casos], falla \in BOOLEAN :
           puntuacion = [estado |-> "pendiente", casos |-> casos,
                         falla |-> falla, similitud |-> 0]

NextRegex == CalcularSimilitudRegex

SpecRegex == InitRegex /\ [][NextRegex]_vars

\* ------------------------------------------------------------------------
\* Backup, validation and restore of a collection (DatabaseManager and
\* QdrantManager: crear_backup_coleccion, validar_backup,
\* restaurar_coleccion)
\* ------------------------------------------------------------------------
\* Largest number of records of the store under backup.
MaxRegistros == 2

\* Values with their Python type; an integer is kept as its decimal digits.
ObjectId(h) == [tipo |-> "ObjectId", valor |-> h]
Str(s) == [tipo |-> "str", valor |-> s]
Entero(n) == [tipo |-> "int", valor |-> n]
Fecha(d) == [tipo |-> "datetime", valor |-> d]

\* The strings bson.ObjectId accepts (24 hexadecimal characters).
Hex24 == {"5f1a"}

\* str(x)
PyStr(x) == Str(x.valor)

\* The types json.dump writes and json.load gives back unchanged.
EsJson(x) == x.tipo \in {"str", "int"}

\* json.dump(..., default=str) followed by json.load: a value json cannot
\* write goes through str().
JsonConDefaultStr(x) == IF EsJson(x) THEN x ELSE PyStr(x)

\* json.dump followed by json.load on a value of a Qdrant point.
Json(x) == IF EsJson(x) THEN x ELSE [tipo |-> "TypeError", valor |-> x.valor]

\* A document as DatabaseManager.crear_backup_coleccion writes it:
\* documento['_id'] = str(documento['_id']), then json.dump with default=str.
RespaldarDocumento(d) ==
    [id |-> JsonConDefaultStr(PyStr(d.id)), campo |-> JsonConDefaultStr(d.campo)]

\* A point as QdrantManager.crear_backup_coleccion writes it.
RespaldarPunto(p) == [id |-> Json(p.id), campo |-> Json(p.campo)]

\* A document as DatabaseManager.restaurar_coleccion prepares it: a string
\* _id becomes ObjectId(_id) when ObjectId accepts it.
PrepararDocumento(d) ==
    IF d.id.tipo = "str" /\ d.id.valor \in Hex24
    THEN [d EXCEPT !.id = ObjectId(d.id.valor)]
    ELSE d

\* Names of the two sections and of the metadata fields of a backup file.
SeccionRegistros(clase) == IF clase = "mongodb" THEN "documents" ELSE "vectors"
CampoTotal(clase) ==
    IF clase = "mongodb" THEN "total_documents" ELSE "total_vectors"
CampoVersion(clase) ==
    IF clase = "mongodb" THEN "mongodb_version" ELSE "qdrant_version"
CamposMetadata(clase) ==
    IF clase = "mongodb"
    THEN {"collection_name", "database_name", "backup_date",
          "total_documents", "mongodb_version", "connection_info"}
    ELSE {"collection_name", "backup_date", "total_vectors", "vector_size",
          "distance", "qdrant_version"}

\* The version of the format both backups write.
VersionFormato == "1.0"

\* campos_requeridos of validar_backup.
campos_requeridos(clase) ==
    IF clase = "mongodb"
    THEN {"collection_name", "database_name", "backup_date", "total_documents"}
    ELSE {"collection_name", "backup_date", "total_vectors", "vector_size"}

\* sha256 of the bytes of the file: equal for equal contents only.
Sha256(contenido) == contenido

\* The file crear_backup_coleccion writes for the records of the store.
crear_backup_coleccion(clase, registros) ==
    [existe |-> TRUE,
     json |-> TRUE,
     secciones |-> {"metadata", SeccionRegistros(clase)},
     metadata |-> [campos |-> CamposMetadata(clase),
                   total |-> Len(registros),
                   version |-> VersionFormato],
     registros |-> [n \in DOMAIN registros |->
                       IF clase = "mongodb"
                       THEN RespaldarDocumento(registros[n])
                       ELSE RespaldarPunto(registros[n])]]

\* validar_backup on a file: the checks in the order of the code.
validar_backup(clase, a) ==
    LET rechazo(error) ==
            [valido |-> FALSE, error |-> error, hash_sha256 |-> SinArchivo]
    IN  IF ~a.existe THEN rechazo("Archivo no encontrado")
        ELSE IF ~a.json THEN rechazo("Error de formato JSON")
        ELSE IF ~({"metadata", SeccionRegistros(clase)} \subseteq a.secciones)
        THEN rechazo("Estructura de backup invalida")
        ELSE IF ~(campos_requeridos(clase) \subseteq a.metadata.campos)
        THEN rechazo("Campo requerido faltante en metadata")
        ELSE IF Len(a.registros) # a.metadata.total
        THEN rechazo("Inconsistencia")
        ELSE [valido |-> TRUE, error |-> "", hash_sha256 |-> Sha256(a)]

\* collection.insert_many(lote), ordered: the documents are inserted
\* one by one until one has the _id of a document of the collection, which
\* raises.
RECURSIVE insert_many(_, _)
insert_many(coleccion, lote) ==
    IF lote = <<>> THEN [registros |-> coleccion, ok |-> TRUE]
    ELSE IF \E n \in DOMAIN coleccion : coleccion[n].id = Head(lote).id
    THEN [registros |-> coleccion, ok |-> FALSE]
    ELSE insert_many(Append(coleccion, Head(lote)), Tail(lote))

\* client.upsert(points): a point replaces the point of the same id.
RECURSIVE upsert(_, _)
upsert(coleccion, points) ==
    IF points = <<>> THEN [registros |-> coleccion, ok |-> TRUE]
    ELSE LET p == Head(points)
             pos == {n \in DOMAIN coleccion : coleccion[n].id = p.id}
         IN  IF pos = {}
             THEN upsert(Append(coleccion, p), Tail(points))
             ELSE upsert([n \in DOMAIN coleccion |->
                             IF n \in pos THEN p ELSE coleccion[n]],
                         Tail(points))

\* The checks restaurar_coleccion makes before it touches the store: the
\* file exists, json.load reads it, and it has the two sections.
EstructuraValida(clase, a) ==
    /\ a.existe
    /\ a.json
    /\ {"metadata", SeccionRegistros(clase)} \subseteq a.secciones

\* restaurar_coleccion(ruta_backup, recrear): the records of the store
\* afterwards and whether the call returned (ok) or raised.
restaurar_coleccion(clase, a, recrear, registros) ==
    IF ~EstructuraValida(clase, a)
    THEN [registros |-> registros, ok |-> FALSE]
    ELSE LET base == IF recrear THEN <<>> ELSE registros
         IN  IF clase = "mongodb"
             THEN insert_many(base, [n \in DOMAIN a.registros |->
                                        PrepararDocumento(a.registros[n])])
             ELSE upsert(base, a.registros)

\* The backup file is still as crear_backup_coleccion wrote it.
Intacto == backup_info.hecho /\ archivo = backup_info.hash_sha256

\* One backup of the store.
CrearBackup ==
    /\ almacen.clase # "ninguna"
    /\ ~backup_info.hecho
    /\ LET a == crear_backup_coleccion(almacen.clase, almacen.registros)
       IN  /\ archivo' = a
           /\ backup_info' = [hecho |-> TRUE, hash_sha256 |-> Sha256(a),
                              origen |-> almacen.registros]
    /\ UNCHANGED <<fueraDeRespaldo, almacen,
                   validacion, restauracion>>

\* Changes made to the file after the backup (one change per file).
Alterar(nuevo) ==
    /\ Intacto
    /\ restauracion.estado = "ninguna"
    /\ nuevo # archivo
    /\ archivo' = nuevo
    /\ UNCHANGED <<fueraDeRespaldo, almacen,
                   backup_info, validacion, restauracion>>

QuitarCampo(campo) ==
    /\ campo \in archivo.metadata.campos
    /\ Alterar([archivo EXCEPT !.metadata.campos = @ \ {campo}])

CambiarVersion == Alterar([archivo EXCEPT !.metadata.version = "2.0"])

CambiarTotal == Alterar([archivo EXCEPT !.metadata.total = @ + 1])

AlterarRegistro(n) ==
    /\ n \in DOMAIN archivo.registros
    /\ Alterar([archivo EXCEPT !.registros[n].campo = Str("otro")])

QuitarSeccion(seccion) ==
    /\ seccion \in archivo.secciones
    /\ Alterar([archivo EXCEPT !.secciones = @ \ {seccion}])

Corromper == Alterar([archivo EXCEPT !.json = FALSE])

\* One call of validar_backup; the file it read is kept with its result.
ValidarBackup ==
    /\ backup_info.hecho
    /\ restauracion.estado = "ninguna"
    /\ validacion.archivo # archivo
    /\ LET r == validar_backup(almacen.clase, archivo)
       IN  validacion' = [hecha |-> TRUE, valido |-> r.valido,
                          error |-> r.error, hash_sha256 |-> r.hash_sha256,
                          archivo |-> archivo]
    /\ UNCHANGED <<fueraDeRespaldo, almacen,
                   archivo, backup_info, restauracion>>

\* One call of restaurar_coleccion; the file it read and the store it found
\* are kept with its outcome.  restauracion_info (len of the records of the
\* file, count of the collection afterwards) exists only when the call
\* returns.
RestaurarColeccion(recrear) ==
    /\ backup_info.hecho
    /\ restauracion.estado = "ninguna"
    /\ LET r == restaurar_coleccion(almacen.clase, archivo, recrear,
                                    almacen.registros)
       IN  /\ almacen' = [almacen EXCEPT !.registros = r.registros]
           /\ restauracion' = [estado |-> IF r.ok THEN "hecha" ELSE "error",
                               recrear |-> recrear,
                               archivo |-> archivo,
                               antes |-> almacen.registros,
                               total_restaurados |->
                                   IF r.ok THEN Len(archivo.registros) ELSE 0,
                               total_en_coleccion |->
                                   IF r.ok THEN Len(r.registros) ELSE 0]
    /\ UNCHANGED <<fueraDeRespaldo, archivo,
                   backup_info, validacion>>

\* The collection is dropped between the backup and the restore.
VaciarAlmacen ==
    /\ backup_info.hecho
    /\ restauracion.estado = "ninguna"
    /\ almacen.registros # <<>>
    /\ almacen' = [almacen EXCEPT !.registros = <<>>]
    /\ UNCHANGED <<fueraDeRespaldo, archivo,
                   backup_info, validacion, restauracion>>

\* A record with a new id is inserted by another thread, during the backup
\* or between the backup and the restore.
InsertarRegistro(r) ==
    /\ backup_info.hecho \/ copia.pc = "leyendo"
    /\ restauracion.estado = "ninguna"
    /\ Len(almacen.registros) < MaxRegistros
    /\ \A n \in DOMAIN almacen.registros : almacen.registros[n].id # r.id
    /\ almacen' = [almacen EXCEPT !.registros = Append(@, r)]
    /\ UNCHANGED <<fueraDeRespaldo, archivo,
                   backup_info, validacion, restauracion>>

\* The records a store of each class can hold: MongoDB documents with any
\* _id and field values, Qdrant points with JSON values.
RegistrosDe(clase) ==
    IF clase = "mongodb"
    THEN [id : {ObjectId("5f1a"), Str("5f1a"), Str("foto"), Entero("7")},
          campo : {Str("x"), Fecha("2024-01-01 10:00:00")}]
    ELSE [id : {Entero("7"), Str("uuid")}, campo : {Str("x"), Entero("7")}]

\* Collections of at most MaxRegistros records with distinct ids.
ColeccionesDe(clase) ==
    {c \in UNION {[1..k -> RegistrosDe(clase)] : k \in 0..MaxRegistros} :
        \A m, n \in DOMAIN c : c[m].id = c[n].id => m = n}

InitRespaldo ==
    /\ mongo = <<>>
    /\ InitTrabajo
    /\ verificacion = SinVerificacion
    /\ busqueda = SinBusqueda
    /\ puntuacion = SinPuntuacion
    /\ \E clase \in {"mongodb", "qdrant"} :
       \E c \in ColeccionesDe(clase) :
           almacen = [clase |-> clase, registros |-> c]
    /\ archivo = SinArchivo
    /\ backup_info = SinBackupInfo
    /\ validacion = SinValidacion
    /\ restauracion = SinRestauracion
    /\ SinInicio
    /\ SinUI
    /\ copia = SinCopia

NextRespaldo ==
    \/ CrearBackup
    \/ \E campo \in CamposMetadata(almacen.clase) : QuitarCampo(campo)
    \/ CambiarVersion
    \/ CambiarTotal
    \/ \E n \in 1..MaxRegistros : AlterarRegistro(n)
    \/ \E seccion \in {"metadata", "documents", "vectors"} : QuitarSeccion(seccion)
    \/ Corromper
    \/ ValidarBackup
    \/ \E recrear \in BOOLEAN : RestaurarColeccion(recrear)
    \/ VaciarAlmacen
    \/ \E r \in RegistrosDe(almacen.clase) : InsertarRegistro(r)

SpecRespaldo == InitRespaldo /\ [][NextRespaldo]_vars

\* ------------------------------------------------------------------------
\* A backup step by step, while another thread inserts records
\* ------------------------------------------------------------------------
\* Start of crear_backup_coleccion: DatabaseManager takes
\* count_documents({}) for the metadata before it opens the cursor;
\* QdrantManager counts nothing before its scroll loop.
IniciarBackup ==
    /\ almacen.clase # "ninguna"
    /\ copia.pc = "ninguna"
    /\ ~backup_info.hecho
    /\ copia' = [pc |-> "leyendo",
                 total_documentos |-> IF almacen.clase = "mongodb"
                                      THEN Len(almacen.registros) ELSE 0,
                 leidos |-> <<>>]
    /\ UNCHANGED <<fueraDeCopia, respaldoVars>>

\* One record from the cursor of find({}) or from scroll.
LeerRegistro ==
    /\ copia.pc = "leyendo"
    /\ Len(copia.leidos) < Len(almacen.registros)
    /\ copia' = [copia EXCEPT
                    !.leidos = Append(@, almacen.registros[Len(@) + 1])]
    /\ UNCHANGED <<fueraDeCopia, respaldoVars>>

\* The cursor is exhausted: the file is written and hashed.  The metadata
\* of DatabaseManager hold the count taken at the start, those of
\* QdrantManager len(all_points).
EscribirBackup ==
    /\ copia.pc = "leyendo"
    /\ Len(copia.leidos) = Len(almacen.registros)
    /\ LET a == [crear_backup_coleccion(almacen.clase, copia.leidos) EXCEPT
                    !.metadata.total = IF almacen.clase = "mongodb"
                                       THEN copia.total_documentos
                                       ELSE Len(copia.leidos)]
       IN  /\ archivo' = a
           /\ backup_info' = [hecho |-> TRUE, hash_sha256 |-> Sha256(a),
                              origen |-> copia.leidos]
    /\ copia' = [copia EXCEPT !.pc = "escrita"]
    /\ UNCHANGED <<fueraDeCopia, almacen, validacion, restauracion>>

NextRespaldoConcurrente ==
    \/ IniciarBackup
    \/ LeerRegistro
    \/ EscribirBackup
    \/ \E r \in RegistrosDe(almacen.clase) : InsertarRegistro(r)
    \/ ValidarBackup

SpecRespaldoConcurrente == InitRespaldo /\ [][NextRespaldoConcurrente]_vars

\* ------------------------------------------------------------------------
\* Start of the vector-store manager: QdrantManager._connect and
\* _ensure_collection
\* ------------------------------------------------------------------------
\* Dimension of the embeddings of the configured model.
vector_size == 768

\* Dimensions an existing collection may have been created with.
Dimensiones == {384, 768, 1024, 1536}

\* The collection the Qdrant server holds when the manager starts: none, or
\* one of some dimension with any points.
ColeccionesQdrant ==
    {SinColeccion}
    \cup [existe : {TRUE}, size : Dimensiones, puntos : SUBSET (0..(HiSpace - 1))]

\* client.get_collections(): raising ends _ensure_collection with the
\* exception; otherwise the collection is looked for by name.
ListarColecciones(ok) ==
    /\ arranque.pc = "inicio"
    /\ arranque' =
           [arranque EXCEPT !.pc = IF ~ok THEN "error"
                                   ELSE IF coleccion_qdrant.existe
                                   THEN "verificar" ELSE "crear"]
    /\ UNCHANGED <<fueraDeInicio, coleccion_qdrant>>

\* client.get_collection() and the comparison of existing_size with
\* vector_size; an exception is logged and the existing collection is used.
VerificarDimension(ok) ==
    /\ arranque.pc = "verificar"
    /\ arranque' =
           [arranque EXCEPT !.pc = IF ok /\ coleccion_qdrant.size # vector_size
                                   THEN "eliminar" ELSE "listo"]
    /\ UNCHANGED <<fueraDeInicio, coleccion_qdrant>>

\* client.delete_collection() of the collection of another dimension; an
\* exception is logged and the existing collection is used.
EliminarColeccion(ok) ==
    /\ arranque.pc = "eliminar"
    /\ coleccion_qdrant' = IF ok THEN SinColeccion ELSE coleccion_qdrant
    /\ arranque' = [arranque EXCEPT !.pc = IF ok THEN "recrear" ELSE "listo"]
    /\ UNCHANGED fueraDeInicio

\* client.create_collection() with vector_size: of a missing collection (an
\* exception is raised to the caller) or after the delete (an exception is
\* logged and the start goes on).
CrearColeccion(ok) ==
    /\ arranque.pc \in {"crear", "recrear"}
    /\ coleccion_qdrant' =
           IF ok THEN [existe |-> TRUE, size |-> vector_size, puntos |-> {}]
           ELSE coleccion_qdrant
    /\ arranque' =
           [arranque EXCEPT !.pc = IF ok \/ arranque.pc = "recrear"
                                   THEN "listo" ELSE "error"]
    /\ UNCHANGED fueraDeInicio

InitInicio ==
    /\ mongo = <<>>
    /\ InitTrabajo
    /\ verificacion = SinVerificacion
    /\ busqueda = SinBusqueda
    /\ puntuacion = SinPuntuacion
    /\ SinRespaldo
    /\ SinUI
    /\ copia = SinCopia
    /\ coleccion_qdrant \in ColeccionesQdrant
    /\ arranque = [pc |-> "inicio", coleccion0 |-> coleccion_qdrant]

NextInicio ==
    \/ \E ok \in BOOLEAN : ListarColecciones(ok)
    \/ \E ok \in BOOLEAN : VerificarDimension(ok)
    \/ \E ok \in BOOLEAN : EliminarColeccion(ok)
    \/ \E ok \in BOOLEAN : CrearColeccion(ok)

SpecInicio == InitInicio /\ [][NextInicio]_vars

\* ------------------------------------------------------------------------
\* The synchronisation job of the window: MainWindow and WorkerThread
\* ------------------------------------------------------------------------
\* A start that leaves "Procesar" enabled (alternative to
\* DeshabilitarBotones).
SinDeshabilitar(v) == [v EXCEPT !.cancelar_btn = TRUE]

\* setEnabled of the three buttons when a job starts.
DeshabilitarBotones(v) ==
    [v EXCEPT !.procesar_btn = FALSE, !.cancelar_btn = TRUE]

\* setEnabled of the buttons in _procesamiento_completado and in
\* _mostrar_error_procesamiento.
RehabilitarBotones(v) ==
    [v EXCEPT !.procesar_btn = TRUE, !.cancelar_btn = FALSE]

\* MainWindow._procesar_coleccion_completa, the slot of the clicked signal
\* of "Procesar" (emitted only while the button is enabled): confirmation,
\* buttons, flag reset, a new WorkerThread that is started.
_procesar_coleccion_completa(reply) ==
    /\ ventana.procesar_btn
    /\ ventana.procesamiento_thread < MaxTrabajos
    /\ IF reply # "Yes"
       THEN UNCHANGED uiVars
       ELSE LET h == ventana.procesamiento_thread + 1
            IN  /\ ventana' = [DeshabilitarBotones(ventana) EXCEPT
                                  !.progreso_label = "Procesando documentos...",
                                  !.cancelar_procesamiento_flag = FALSE,
                                  !.procesamiento_thread = h]
                /\ hilos' = [hilos EXCEPT ![h].pc = "iniciado"]
                /\ UNCHANGED senales
    /\ UNCHANGED fueraDeUI

\* MainWindow._cancelar_procesamiento, the slot of "Cancelar".
_cancelar_procesamiento ==
    /\ ventana.cancelar_btn
    /\ ventana' = IF ventana.procesamiento_thread = 0 THEN ventana
                  ELSE [ventana EXCEPT
                          !.cancelar_procesamiento_flag = TRUE,
                          !.progreso_label = "Cancelando procesamiento..."]
    /\ UNCHANGED <<fueraDeUI, hilos, senales>>

\* MainWindow._verificar_cancelacion, the cancel_callback of the worker.
_verificar_cancelacion == ventana.cancelar_procesamiento_flag

\* Signal.emit from the worker: the connection to the window is queued.
Emitir(cola, h, tipo, cancelado, mensaje) ==
    Append(cola, [hilo |-> h, tipo |-> tipo, cancelado |-> cancelado,
                  mensaje |-> mensaje])

\* The end of the branch "procesar_coleccion" of run once the batch
\* processor returned its result.
Completado(h, cancelado) ==
    Emitir(Emitir(senales, h, "progreso", FALSE, "Procesamiento completado"),
           h, "completado", cancelado, "")

\* WorkerThread.run, branch "procesar_coleccion", up to the call of the
\* batch processor: the cancellation check before the start returns without
\* emitting procesamiento_completado or error_ocurrido.
RunInicio(h) ==
    /\ hilos[h].pc = "iniciado"
    /\ LET analizando ==
               Emitir(senales, h, "progreso", FALSE, "Analizando colección...")
       IN  IF _verificar_cancelacion
           THEN /\ hilos' = [hilos EXCEPT ![h].pc = "terminado"]
                /\ senales' = Emitir(analizando, h, "progreso", FALSE,
                                     "Procesamiento cancelado")
           ELSE /\ hilos' = [hilos EXCEPT ![h].pc = "llamada"]
                /\ senales' = analizando
    /\ UNCHANGED <<fueraDeUI, ventana>>

\* Start of procesar_coleccion_completa inside the worker: the candidate
\* query raises (the exception reaches run, which emits error_ocurrido),
\* finds nothing (a result without "cancelado"), or finds n candidates.
RunObtener(h, n, find_ok) ==
    /\ hilos[h].pc = "llamada"
    /\ IF ~find_ok
       THEN /\ hilos' = [hilos EXCEPT ![h].pc = "terminado"]
            /\ senales' = Emitir(senales, h, "error", FALSE, "")
       ELSE IF n = 0
       THEN /\ hilos' = [hilos EXCEPT ![h].pc = "terminado"]
            /\ senales' = Completado(h, FALSE)
       ELSE /\ hilos' = [hilos EXCEPT ![h].pc = "lote", ![h].restantes = n]
            /\ UNCHANGED senales
    /\ UNCHANGED <<fueraDeUI, ventana>>

\* One document of the loop of procesar_coleccion_completa inside the
\* worker: the cancellation check returns a result with "cancelado": True,
\* otherwise the document is processed (its errors are counted, not
\* raised); after the last document the result is returned and run emits
\* procesamiento_completado.
RunDocumento(h) ==
    /\ hilos[h].pc = "lote"
    /\ IF hilos[h].restantes = 0
       THEN /\ hilos' = [hilos EXCEPT ![h].pc = "terminado"]
            /\ senales' = Completado(h, FALSE)
       ELSE IF _verificar_cancelacion
       THEN /\ hilos' = [hilos EXCEPT ![h].pc = "terminado",
                                      ![h].restantes = 0]
            /\ senales' = Completado(h, TRUE)
       ELSE /\ hilos' = [hilos EXCEPT ![h].restantes = @ - 1]
            /\ UNCHANGED senales
    /\ UNCHANGED <<fueraDeUI, ventana>>

\* MainWindow._actualizar_progreso_procesamiento, the slot of
\* progreso_actualizado.
_actualizar_progreso_procesamiento ==
    /\ senales # <<>>
    /\ Head(senales).tipo = "progreso"
    /\ ventana' = [ventana EXCEPT !.progreso_label = Head(senales).mensaje]
    /\ senales' = Tail(senales)
    /\ UNCHANGED <<fueraDeUI, hilos>>

\* MainWindow._procesamiento_completado, the slot of the queued signal
\* procesamiento_completado.
_procesamiento_completado ==
    /\ senales # <<>>
    /\ Head(senales).tipo = "completado"
    /\ ventana' = [RehabilitarBotones(ventana) EXCEPT
                      !.progreso_label = IF Head(senales).cancelado
                                         THEN "Procesamiento cancelado"
                                         ELSE "Procesamiento completado"]
    /\ hilos' = [hilos EXCEPT ![Head(senales).hilo].reportes = @ + 1]
    /\ senales' = Tail(senales)
    /\ UNCHANGED fueraDeUI

\* MainWindow._mostrar_error_procesamiento, the slot of error_ocurrido.
_mostrar_error_procesamiento ==
    /\ senales # <<>>
    /\ Head(senales).tipo = "error"
    /\ ventana' = [RehabilitarBotones(ventana) EXCEPT
                      !.progreso_label = "Error en procesamiento"]
    /\ hilos' = [hilos EXCEPT ![Head(senales).hilo].reportes = @ + 1]
    /\ senales' = Tail(senales)
    /\ UNCHANGED fueraDeUI

InitUI ==
    /\ mongo = <<>>
    /\ InitTrabajo
    /\ verificacion = SinVerificacion
    /\ busqueda = SinBusqueda
    /\ puntuacion = SinPuntuacion
    /\ SinRespaldo
    /\ SinInicio
    /\ SinUI
    /\ copia = SinCopia

Trabajador ==
    \/ \E h \in Trabajos : RunInicio(h)
    \/ \E h \in Trabajos, n \in 0..MaxDocs, find_ok \in BOOLEAN :
         RunObtener(h, n, find_ok)
    \/ \E h \in Trabajos : RunDocumento(h)

Entrega ==
    \/ _actualizar_progreso_procesamiento
    \/ _procesamiento_completado
    \/ _mostrar_error_procesamiento

NextUI ==
    \/ \E reply \in {"Yes", "No"} : _procesar_coleccion_completa(reply)
    \/ _cancelar_procesamiento
    \/ Trabajador
    \/ Entrega

SpecUI == InitUI /\ [][NextUI]_vars

\* The worker threads are scheduled and the event loop of the window
\* delivers the queued signals; the user is under no obligation.
SpecUIJusta == SpecUI /\ WF_vars(Trabajador) /\ WF_vars(Entrega)

\* ========================================================================
\* Properties
\* ========================================================================
\* The stable key of a stored document, as every job derives it.
ClaveDe(id) == ensure_id_hash(id, mongo[id].id_hash)

TieneEmbedding(d) == "embedding" \in d.campos /\ d.embedding # <<>>
TieneDescripcion(d) ==
    "descripcion_semantica" \in d.campos /\ d.descripcion_semantica # <<>>

\* The run has returned a result dictionary (it neither raised nor died).
Retornado == pc = "idle" /\ resultado.tipo \in {"vacio", "completado", "cancelado"}

\* C1: in every reachable state, every document whose qdrant flag is true
\* has a non-empty embedding and a non-empty description in MongoDB.
C1_IndexadoTieneEmbedding ==
    \A id \in DOMAIN mongo :
        mongo[id].qdrant => TieneEmbedding(mongo[id]) /\ TieneDescripcion(mongo[id])

\* C2: between runs, every flagged document has a vector entry under the
\* numeric id of its stable key, and no two flagged documents share one.
C2_UnPuntoPorIndexado ==
    pc = "idle" =>
        \A id \in DOMAIN mongo :
            mongo[id].qdrant =>
                /\ IdNumerico32(ClaveDe(id)) \in DOMAIN puntos
                /\ \A otro \in DOMAIN mongo :
                       (otro # id /\ mongo[otro].qdrant) =>
                           IdNumerico32(ClaveDe(otro)) # IdNumerico32(ClaveDe(id))

\* C3: when a second run follows a first one with the primary store
\* otherwise unchanged, no document the first run counted as successful is
\* attempted or counted again, and as long as the second run has attempted
\* nothing new the vector count is the one it started with.
C3_SinDobleConteo ==
    (corridas.lotes >= 2 /\ corridas.detecciones = 0 /\ corridas.migraciones = 0) =>
        /\ previo.contados \cap traza.contados = {}
        /\ previo.contados \cap Rango(traza.intentados) = {}
        /\ (Rango(traza.intentados) \subseteq previo.contados
                => total_vectors = traza.puntos0)

\* C4: a run without failures whose cancel flag was set between two
\* records, after k of its N candidates (k < N), returns succeeded = k and
\* canceled = true, and exactly k of its candidates are flagged.
C4_CanceladoTrasK ==
    (/\ pc = "idle"
     /\ resultado.tipo \in {"completado", "cancelado"}
     /\ traza.fallos = {}
     /\ traza.cancel_en >= 0
     /\ ~traza.cancel_medio
     /\ traza.cancel_en < Len(traza.candidatos)) =>
        /\ resultado.total_exitosos = traza.cancel_en
        /\ resultado.cancelado
        /\ Cardinality({id \in Rango(traza.candidatos) : mongo[id].qdrant})
               = traza.cancel_en

C4_Witness ==
    /\ pc = "idle"
    /\ resultado.tipo = "cancelado"
    /\ traza.fallos = {}
    /\ ~traza.cancel_medio
    /\ traza.cancel_en = 1
    /\ Len(traza.candidatos) = 2
    /\ resultado.total_exitosos = 1
    /\ mongo[traza.candidatos[1]].qdrant
    /\ ~mongo[traza.candidatos[2]].qdrant

\* C5: a run during which the cancel flag was set (at any point, no
\* external call failing) returns canceled = true, counts no record as
\* failed because of the cancellation, and leaves every candidate either
\* untouched or with its vector entry upserted and its flag set.
C5_CancelSinParciales ==
    (/\ Retornado
     /\ traza.cancel_en >= 0
     /\ traza.fallos \subseteq {"cancelado"}) =>
        /\ resultado.cancelado
        /\ "cancelado" \notin traza.fallos
        /\ resultado.total_errores = 0
        /\ \A id \in Rango(traza.candidatos) :
               \/ traza.efectos[id] = {}
               \/ {"vector", "marca"} \subseteq traza.efectos[id]

\* C6: a run with no cap, no cancellation and no failing call, started on a
\* store with c documents not flagged, attempts exactly those c documents,
\* returns attempted = c, succeeded = c, failed = 0, canceled = false, and
\* raises the vector count by c; with c = 0 it returns at once with all
\* counters zero and writes nothing.
C6_ProcesaLosPendientes ==
    (/\ Retornado
     /\ traza.lim = 0
     /\ traza.cancel_en = -1
     /\ traza.fallos = {}
     /\ migracion.tipo = "ninguna") =>
        LET c == Cardinality(traza.pendientes0)
        IN  /\ Rango(traza.intentados) = traza.pendientes0
            /\ resultado.total_procesados = c
            /\ resultado.total_exitosos = c
            /\ resultado.total_errores = 0
            /\ ~resultado.cancelado
            /\ total_vectors = traza.puntos0 + c
            /\ c = 0 => /\ resultado.tipo = "vacio"
                        /\ \A id \in Ids : traza.efectos[id] = {}

\* The candidate condition as the job's contract words it.
EsCandidato(d) ==
    /\ \/ "embedding" \notin d.campos
       \/ "descripcion_semantica" \notin d.campos
       \/ ~d.objeto_procesado
    /\ ~("qdrant" \in d.campos /\ d.qdrant)

\* C7: the run hands a document to procesar_documento only if it satisfies
\* the candidate condition, no step of a run changes a document that is
\* already flagged, and with a cap m >= 1 the run attempts at most m.
C7_SoloCandidatosYTope ==
    /\ [][(pc = "doc" /\ pc' = "embed") => EsCandidato(mongo[documento.id])]_vars
    /\ [][Corriendo => \A id \in DOMAIN mongo :
                           mongo[id].qdrant => mongo'[id] = mongo[id]]_vars
    /\ [](traza.lim # 0 => Len(traza.intentados) <= traza.lim)

C7_Witness ==
    /\ pc = "idle"
    /\ resultado.tipo = "completado"
    /\ traza.lim = 1
    /\ Len(traza.intentados) = 1
    /\ Cardinality(traza.pendientes0) = 2
    /\ mongo[traza.intentados[1]].qdrant

\* C8: when the embedding call or the embedding write of one document
\* fails, the error counter grows by exactly one, the flag of no document
\* changes and the loop moves on to the next document; a failed document
\* is not flagged by the run, a run that completes without cancellation
\* has attempted every candidate, and the run returns its counters.
C8_FalloNoAbortaLote ==
    /\ [][(/\ pc \in {"embed", "mongo"}
           /\ ~cancelar_flag
           /\ corridas'.fallos = corridas.fallos + 1) =>
              /\ errores' = errores + 1
              /\ exitosos' = exitosos
              /\ mongo' = mongo
              /\ pc' = "doc"
              /\ j' = j + 1]_vars
    /\ [](\A id \in traza.fallidos : "marca" \notin traza.efectos[id])
    /\ []((pc = "idle" /\ resultado.tipo = "completado" /\ traza.cancel_en = -1) =>
              /\ traza.intentados = traza.candidatos
              /\ resultado.total_errores = Cardinality(traza.fallidos)
              /\ resultado.total_procesados = Len(traza.candidatos))
    /\ []((pc = "idle" /\ traza.fallos \cap {"embedding", "mongo"} # {}) =>
              resultado.tipo \in {"completado", "cancelado", "interrumpido"})

C8_Witness ==
    /\ pc = "idle"
    /\ resultado.tipo = "completado"
    /\ traza.fallos \in {{"embedding"}, {"mongo"}}
    /\ Len(traza.candidatos) = 2
    /\ traza.fallidos = {traza.candidatos[1]}
    /\ traza.contados = {traza.candidatos[2]}
    /\ resultado.total_errores = 1
    /\ ~mongo[traza.candidatos[1]].qdrant
    /\ mongo[traza.candidatos[2]].qdrant

\* C9: every point operation keyed by a stable key addresses the numeric
\* id int(md5(key)[:8], 16), and after a delete of a key no entry is left
\* under that id.
C9_MismoIdNumerico ==
    /\ ultimaOp.op # "ninguna" => ultimaOp.id_numerico = IdNumerico32(ultimaOp.clave)
    /\ ultimaOp.op = "eliminar" => IdNumerico32(ultimaOp.clave) \notin DOMAIN puntos

C11_CompletaSiiMayorOIgual ==
    /\ [](verificacion.tipo = "hecha" =>
             (verificacion.migracion_completa <=>
                 Cardinality(verificacion.puntos0) >=
                 Cardinality({id \in DOMAIN verificacion.mongo0 :
                                 "embedding" \in verificacion.mongo0[id].campos})))
    /\ [][verificacion' # verificacion => mongo' = mongo /\ puntos' = puntos]_vars

C11_Witness ==
    /\ verificacion.tipo = "hecha"
    /\ verificacion.migracion_completa
    /\ verificacion.documentos_qdrant > verificacion.documentos_mongodb
    /\ verificacion.documentos_mongodb >= 1

C13_FusionUnicaMaximaOrdenada ==
    busqueda.estado = "hecha" =>
        LET R == busqueda.resultados
            todos == busqueda.resultados_texto \o busqueda.resultados_semanticos
        IN  /\ \A m, n \in DOMAIN R : R[m].id_hash = R[n].id_hash => m = n
            /\ \A n \in DOMAIN R :
                  /\ \E k \in DOMAIN todos : todos[k] = R[n]
                  /\ \A k \in DOMAIN todos :
                        todos[k].id_hash = R[n].id_hash =>
                            todos[k].similitud <= R[n].similitud
            /\ \A n \in 1..(Len(R) - 1) : R[n].similitud >= R[n + 1].similitud
            /\ Len(R) <= busqueda.limite

\* A key found by both paths with the higher score on the semantic side is
\* returned with that score in a list cut to limite entries.
C13_Witness ==
    /\ busqueda.estado = "hecha"
    /\ Len(busqueda.resultados) = busqueda.limite
    /\ Len(busqueda.resultados) >= 2
    /\ Cardinality(ClavesDeLista(busqueda.resultados_texto)
                   \cup ClavesDeLista(busqueda.resultados_semanticos)) > busqueda.limite
    /\ \E m \in DOMAIN busqueda.resultados_texto,
          n \in DOMAIN busqueda.resultados_semanticos :
          /\ busqueda.resultados_texto[m].id_hash = busqueda.resultados_semanticos[n].id_hash
          /\ busqueda.resultados_texto[m].similitud < busqueda.resultados_semanticos[n].similitud
          /\ busqueda.resultados_semanticos[n] \in Rango(busqueda.resultados)

\* The keys found by exactly one of the two paths of the last search.
ClavesDeUnCamino ==
    (ClavesDeLista(busqueda.resultados_texto)
        \ ClavesDeLista(busqueda.resultados_semanticos))
    \cup (ClavesDeLista(busqueda.resultados_semanticos)
        \ ClavesDeLista(busqueda.resultados_texto))

\* The highest score a key has in either list.
MejorSimilitud(clave) ==
    LET todos == busqueda.resultados_texto \o busqueda.resultados_semanticos
        S == {todos[n].similitud : n \in {k \in DOMAIN todos : todos[k].id_hash = clave}}
    IN  CHOOSE s \in S : \A t \in S : t <= s

\* C14 (as stated): every stable key found by exactly one of the two paths is
\* in the list buscar_hibrida returns, and an entry of either path is left
\* out only when its key was found by both paths.
C14_ClaveDeUnCaminoDevuelta ==
    busqueda.estado = "hecha" =>
        LET R == busqueda.resultados
            todos == busqueda.resultados_texto \o busqueda.resultados_semanticos
        IN  /\ ClavesDeUnCamino \subseteq ClavesDeLista(R)
            /\ \A k \in DOMAIN todos :
                  todos[k] \notin Rango(R) =>
                      /\ todos[k].id_hash \in ClavesDeLista(busqueda.resultados_texto)
                      /\ todos[k].id_hash \in ClavesDeLista(busqueda.resultados_semanticos)

\* C14 (amended): the list buscar_hibrida returns has min(limite, number of
\* distinct keys of the two paths) entries, all with keys of the two paths;
\* a key of either path is missing from it only when the list is full
\* (limite entries) and every returned entry scores at least the best score
\* of the missing key; and an entry whose key is returned is itself left out
\* only when its key was found by both paths.  So a key found by exactly one
\* path is always returned when the two paths found at most limite distinct
\* keys.
C14_SoloTruncaOColisiona ==
    busqueda.estado = "hecha" =>
        LET R == busqueda.resultados
            todos == busqueda.resultados_texto \o busqueda.resultados_semanticos
            K == ClavesDeLista(todos)
        IN  /\ Len(R) = Min(busqueda.limite, Cardinality(K))
            /\ ClavesDeLista(R) \subseteq K
            /\ \A clave \in K \ ClavesDeLista(R) :
                  /\ Len(R) = busqueda.limite
                  /\ \A n \in DOMAIN R : R[n].similitud >= MejorSimilitud(clave)
            /\ \A k \in DOMAIN todos :
                  (todos[k] \notin Rango(R) /\ todos[k].id_hash \in ClavesDeLista(R)) =>
                      /\ todos[k].id_hash \in ClavesDeLista(busqueda.resultados_texto)
                      /\ todos[k].id_hash \in ClavesDeLista(busqueda.resultados_semanticos)
            /\ Cardinality(K) <= busqueda.limite =>
                   ClavesDeUnCamino \subseteq ClavesDeLista(R)

\* A search where one key found by a single path is returned and another
\* key found by a single path is cut off by the limit.
C14_Witness ==
    /\ busqueda.estado = "hecha"
    /\ \E k1, k2 \in ClavesDeUnCamino :
          /\ k1 \in ClavesDeLista(busqueda.resultados)
          /\ k2 \notin ClavesDeLista(busqueda.resultados)

\* C15: when the semantic path of a hybrid search fails after the text path
\* succeeded, the hybrid search returns the results of the text path.
C15_FalloSemanticoDevuelveTexto ==
    busqueda.fallo_en = "semantica" =>
        /\ busqueda.estado = "hecha"
        /\ busqueda.resultados =
               Combinar(busqueda.resultados_texto, <<>>, busqueda.limite)

\* C16: the score _calcular_similitud_regex returns lies between 0.1 and
\* 1.0 and is never 0, for every document and query, also when an
\* exception is raised while scoring.
C16_SimilitudEntreMinimoYUno ==
    puntuacion.estado = "hecha" =>
        /\ puntuacion.similitud >= SimilitudMinima
        /\ puntuacion.similitud <= SimilitudMaxima
        /\ puntuacion.similitud # 0

\* A document none of whose fields matches as a substring, scored without
\* an exception.
C16_Witness ==
    /\ puntuacion.estado = "hecha"
    /\ ~puntuacion.falla
    /\ \A n \in DOMAIN Campos : puntuacion.casos[n] \in {"vacio", "ninguno"}
    /\ puntuacion.similitud = SimilitudMinima

\* C17: validar_backup answers valido = true only for a file that parses,
\* has the two sections and every required metadata field, declares the
\* number of records it holds, and whose sha256 is the one
\* crear_backup_coleccion computed when it wrote the file.
C17_ValidoSoloSiIntegro ==
    (validacion.hecha /\ validacion.valido) =>
        LET a == validacion.archivo
        IN  /\ a.existe
            /\ a.json
            /\ {"metadata", SeccionRegistros(almacen.clase)} \subseteq a.secciones
            /\ campos_requeridos(almacen.clase) \subseteq a.metadata.campos
            /\ Len(a.registros) = a.metadata.total
            /\ Sha256(a) = backup_info.hash_sha256

\* C18: validar_backup answers valido = false for every file whose format
\* version field (mongodb_version, qdrant_version) is missing or holds
\* another version than the one crear_backup_coleccion writes.
C18_VersionDesconocidaRechazada ==
    validacion.hecha =>
        LET a == validacion.archivo
        IN  (\/ CampoVersion(almacen.clase) \notin a.metadata.campos
             \/ a.metadata.version # VersionFormato) => ~validacion.valido

\* C19: restaurar_coleccion on a file validar_backup rejects raises and
\* leaves the store as it found it, whatever recrear is.
C19_InvalidoNoRestaura ==
    (/\ restauracion.estado # "ninguna"
     /\ ~validar_backup(almacen.clase, restauracion.archivo).valido) =>
        /\ restauracion.estado = "error"
        /\ almacen.registros = restauracion.antes

\* C20: restaurar_coleccion with recrear = true on the file
\* crear_backup_coleccion wrote returns, and the store then holds as many
\* records as at the backup, each with the id and the field values (value
\* and type) it had.
C20_RestaurarReproduce ==
    (/\ restauracion.estado # "ninguna"
     /\ restauracion.recrear
     /\ restauracion.archivo = backup_info.hash_sha256) =>
        /\ restauracion.estado = "hecha"
        /\ Len(almacen.registros) = Len(backup_info.origen)
        /\ Rango(almacen.registros) = Rango(backup_info.origen)

\* C21: restaurar_coleccion on the file crear_backup_coleccion wrote returns
\* total_restaurados = number of records of the file and
\* total_en_coleccion = number of records of the store afterwards; equal
\* when recrear is true; when recrear is false every record the store held
\* keeps its id in the store and total_en_coleccion >= total_restaurados,
\* also when the store holds records with the ids of the file.
C21_ConteosDeRestauracion ==
    (/\ restauracion.estado # "ninguna"
     /\ restauracion.archivo = backup_info.hash_sha256) =>
        /\ restauracion.estado = "hecha"
        /\ restauracion.total_restaurados = Len(restauracion.archivo.registros)
        /\ restauracion.total_en_coleccion = Len(almacen.registros)
        /\ restauracion.recrear =>
               restauracion.total_en_coleccion = restauracion.total_restaurados
        /\ ~restauracion.recrear =>
               /\ \A m \in DOMAIN restauracion.antes :
                     \E n \in DOMAIN almacen.registros :
                         almacen.registros[n].id = restauracion.antes[m].id
               /\ restauracion.total_en_coleccion >= restauracion.total_restaurados

\* C22: when the manager starts on an existing collection whose dimension
\* differs from vector_size, the start ends with an error and the collection
\* and its points stay as they were.
C22_DimensionDistintaFalla ==
    (arranque.coleccion0.existe /\ arranque.coleccion0.size # vector_size) =>
        /\ coleccion_qdrant = arranque.coleccion0
        /\ arranque.pc \in {"listo", "error"} => arranque.pc = "error"

\* C23: a run hands the candidates to procesar_documento one at a time in
\* the order of the list: the documents attempted so far are a prefix of
\* the candidate list, the one being processed is the last of them, and a
\* pause has been taken after every finished chunk except the last one.
C23_OrdenYPausas ==
    /\ Len(traza.intentados) <= Len(traza.candidatos)
    /\ \A n \in DOMAIN traza.intentados :
          traza.intentados[n] = traza.candidatos[n]
    /\ EnDocumento =>
          /\ Len(traza.intentados) = i + j + 1
          /\ traza.intentados[i + j + 1] = documento.id
    /\ pc = "doc" => Len(traza.intentados) = i + j
    /\ pc = "lote" => Len(traza.intentados) = Min(i, Len(documentos))
    /\ Corriendo =>
          traza.pausas = IF i = 0 THEN 0
                         ELSE IF i >= Len(documentos)
                         THEN (i \div batch_size) - 1
                         ELSE i \div batch_size

\* A run over two candidates in chunks of one document, at the end of its
\* loop: both attempted in order, one pause taken.
C23_Witness ==
    /\ pc = "lote"
    /\ Len(documentos) = 2
    /\ batch_size = 1
    /\ i >= Len(documentos)
    /\ Len(traza.intentados) = 2
    /\ traza.pausas = 1

\* C27: in every result a run returns, completed or cancelled,
\* total_procesados = total_exitosos + total_errores.
C27_ProcesadosSumaExitososYErrores ==
    resultado.tipo \in {"completado", "cancelado"} =>
        resultado.total_procesados =
            resultado.total_exitosos + resultado.total_errores

C30_TrabajoReporta ==
    /\ [](\A h \in Trabajos : hilos[h].reportes <= 1)
    /\ \A h \in Trabajos :
          (hilos[h].pc # "ninguno") ~> (hilos[h].reportes = 1)

\* C25: after any sequence of batch and reconcile runs every entry of the
\* vector store holds the full payload of its record under the numeric id
\* of the record's stable key, whether it was inserted or rewritten.
C25_PayloadCompletoSiempre ==
    \A n \in DOMAIN puntos :
        /\ puntos[n].payload.completo
        /\ IdNumerico32(puntos[n].payload.id_hash) = n

\* C26: whenever a document is flagged as vector-indexed, its vector entry
\* exists and carries the current MongoDB fields of the document, also
\* after object detection rewrote them.
C26_EntradaAlDia ==
    \A id \in DOMAIN mongo :
        mongo[id].qdrant =>
            LET n == IdNumerico32(ClaveDe(id))
            IN  /\ n \in DOMAIN puntos
                /\ puntos[n].payload.id = id
                /\ puntos[n].payload.objeto_procesado = mongo[id].objeto_procesado

C29_BackupValida ==
    (validacion.hecha /\ validacion.archivo = backup_info.hash_sha256) =>
        validacion.valido

====
